---- MODULE Spec2Model ----
(***************************************************************************)
(* Model of pet-feeder.py (PetFeederApp): the persisted feeding schedule,  *)
(* the 30 second schedule timer with its last-feed marker, the connection  *)
(* to the robot, and the feed and camera coroutines running on the         *)
(* cooperative event loop.                                                 *)
(*                                                                         *)
(* Strings are sequences of code points, so that strftime, strptime, the   *)
(* lexicographic sort and the JSON file text are computed, not assumed.    *)
(***************************************************************************)
EXTENDS Integers, Sequences, FiniteSets, Bags, TLC

VARIABLES
    file,             \* schedule.json: [exists, text]
    default_schedule, \* contents of the module-level list DEFAULT_SCHEDULE
    shares_default,   \* self.schedule is the DEFAULT_SCHEDULE object itself
    schedule,         \* self.schedule
    list_items,       \* items of self.schedule_list
    current_row,      \* self.schedule_list.currentRow()
    last_feed_time,   \* self.last_feed_time
    connected,        \* self.connected
    robot,            \* self.robot
    stepper,          \* self.stepper
    camera,           \* self.camera
    connect_btn,      \* self.connect_btn.isEnabled()
    feed_btn,         \* self.feed_btn.isEnabled()
    refresh_cam_btn,  \* self.refresh_cam_btn.isEnabled()
    status,           \* self.status_label.text()
    camera_label,     \* pixmap shown by self.camera_label
    tasks,            \* bag of coroutines pending on the event loop
    clock,            \* wall clock, seconds since midnight of day 0
    aborted,          \* the process was ended by an exception that left a slot
    fired,            \* history: clock readings at which a feed was triggered
    last_feed         \* history: motor calls of the feed that finished last

vars == <<file, default_schedule, shares_default, schedule, list_items,
          current_row, last_feed_time,
          connected, robot, stepper, camera, connect_btn, feed_btn,
          refresh_cam_btn, status, camera_label, tasks, clock, aborted,
          fired, last_feed>>

schedVars == <<file, default_schedule, shares_default, schedule, list_items, current_row>>
connVars  == <<connected, robot, stepper, camera, connect_btn>>

(***************************************************************************)
(* Bounds of the model.                                                    *)
(***************************************************************************)
MaxSchedule == 4      \* add_time is explored while the schedule is shorter
MaxTasks == 2         \* coroutines pending on the event loop at once
ShortSpan == 120      \* seconds of wall clock explored by Spec
LongSpan == 86520     \* seconds of wall clock explored by SpecClock

(***************************************************************************)
(* Characters and strings.                                                 *)
(***************************************************************************)
None == "None"

Zero == 48
Nine == 57
Colon == 58
Quote == 34
Comma == 44
Space == 32
LBracket == 91
RBracket == 93
LBrace == 123
RBrace == 125
Backslash == 92
Slash == 47
Minus == 45
Plus == 43
Dot == 46
Tilde == 126
Backspace == 8
Tab == 9
Newline == 10
FormFeed == 12
Return == 13
UpperA == 65
UpperE == 69
UpperF == 70
UpperI == 73
UpperN == 78
LowerA == 97
LowerB == 98
LowerE == 101
LowerF == 102
LowerI == 105
LowerL == 108
LowerN == 110
LowerR == 114
LowerS == 115
LowerT == 116
LowerU == 117
LowerY == 121
HighSurrogate == 55296
LowSurrogate == 56320
Plane1 == 65536
ArabicZero == 1632

\* sys.int_info.default_max_str_digits
MaxStrDigits == 4300

\* the characters with decimal value 0 of the Unicode 14 (Python 3.11)
\* category Nd; each is followed by the characters for 1 to 9
DecimalZeros ==
    {48, 1632, 1776, 1984, 2406, 2534, 2662, 2790, 2918, 3046, 3174, 3302,
     3430, 3558, 3664, 3792, 3872, 4160, 4240, 6112, 6160, 6470, 6608, 6784,
     6800, 6992, 7088, 7232, 7248, 42528, 43216, 43264, 43472, 43504, 43600,
     44016, 65296, 66720, 68912, 69734, 69872, 69942, 70096, 70384, 70736,
     70864, 71248, 71360, 71472, 71904, 72016, 72784, 73040, 73120, 92768,
     92864, 93008, 120782, 120792, 120802, 120812, 120822, 123200, 123632,
     125264, 130032}

\* \d of the re module on str: any Unicode decimal digit
IsDigit(c) == \E z \in DecimalZeros : c \in z..(z + 9)

Range(s) == {s[i] : i \in 1..Len(s)}

\* the text "h1h2:m1m2"
T(h1, h2, m1, m2) == <<Zero + h1, Zero + h2, Colon, Zero + m1, Zero + m2>>

\* lexicographic order of str by code point (str.__lt__)
RECURSIVE StrLess(_, _)
StrLess(a, b) ==
    IF a = <<>> THEN b # <<>>
    ELSE IF b = <<>> THEN FALSE
    ELSE IF Head(a) # Head(b) THEN Head(a) < Head(b)
    ELSE StrLess(Tail(a), Tail(b))

RECURSIVE Insert(_, _)
Insert(x, s) ==
    IF s = <<>> THEN <<x>>
    ELSE IF StrLess(x, Head(s)) THEN <<x>> \o s
    ELSE <<Head(s)>> \o Insert(x, Tail(s))

\* a sort that leaves the list as it is
Sort_skipped(s) == s

\* list.sort() on a list of str (stable, ascending)
RECURSIVE Sort(_)
Sort(s) == IF s = <<>> THEN <<>> ELSE Insert(s[Len(s)], Sort(SubSeq(s, 1, Len(s) - 1)))

IsSorted(s) == \A i \in 1..(Len(s) - 1) : ~StrLess(s[i + 1], s[i])
NoDuplicates(s) == \A i, j \in 1..Len(s) : i # j => s[i] # s[j]

\* a pop that ignores the index and drops the last element
RemoveAt_last(s, i) == SubSeq(s, 1, Len(s) - 1)

\* list.pop(i) / QListWidget.takeItem(i), i counted from 0
RemoveAt(s, i) == SubSeq(s, 1, i) \o SubSeq(s, i + 2, Len(s))

(***************************************************************************)
(* datetime: strftime("%H:%M") of the clock and strptime(time, "%H:%M").   *)
(***************************************************************************)
AbsMinute(t) == t \div 60

Strftime(t) ==
    LET h == (t \div 3600) % 24
        m == (t \div 60) % 60
    IN  T(h \div 10, h % 10, m \div 10, m % 10)

\* _strptime matches (2[0-3]|[0-1]\d|\d):([0-5]\d|\d) and raises ValueError
\* when the match fails or leaves unconverted data
StrptimeOK(s) ==
    \E hl \in 1..2, ml \in 1..2 :
        /\ Len(s) = hl + 1 + ml
        /\ IF hl = 2
           THEN \/ s[1] = Zero + 2 /\ s[2] \in Zero..(Zero + 3)
                \/ s[1] \in Zero..(Zero + 1) /\ IsDigit(s[2])
           ELSE IsDigit(s[1])
        /\ s[hl + 1] = Colon
        /\ IF ml = 2
           THEN s[hl + 2] \in Zero..(Zero + 5) /\ IsDigit(s[hl + 3])
           ELSE IsDigit(s[hl + 2])

\* strict 24-hour HH:MM: two-digit hour 00-23, colon, two-digit minute 00-59
StrictHHMM(s) ==
    /\ Len(s) = 5
    /\ s[1] \in Zero..Nine /\ s[2] \in Zero..Nine /\ s[3] = Colon
    /\ s[4] \in Zero..Nine /\ s[5] \in Zero..Nine
    /\ (s[1] - Zero) * 10 + (s[2] - Zero) <= 23
    /\ (s[4] - Zero) * 10 + (s[5] - Zero) <= 59

(***************************************************************************)
(* json: the text json.dump writes for a list of str (ensure_ascii), and   *)
(* json.load as the C scanner of CPython 3.11 reads a text.                *)
(*                                                                         *)
(* A parsed value is [ok, next, type, val, pure].  The val of a list is    *)
(* the sequence of its elements, a str element as its text and any other   *)
(* element as [json |-> type, val |-> val]; pure says that every element   *)
(* is a str.  The val of a dict is the sequence of its [key, val] items.   *)
(***************************************************************************)
HexDigit(d) == IF d < 10 THEN Zero + d ELSE LowerA + (d - 10)

\* '\\u{0:04x}'
U4(n) ==
    <<Backslash, LowerU, HexDigit(n \div 4096), HexDigit((n \div 256) % 16),
      HexDigit((n \div 16) % 16), HexDigit(n % 16)>>

\* py_encode_basestring_ascii on one character
EscapeChar(c) ==
    IF c = Quote THEN <<Backslash, Quote>>
    ELSE IF c = Backslash THEN <<Backslash, Backslash>>
    ELSE IF c = Newline THEN <<Backslash, LowerN>>
    ELSE IF c = Return THEN <<Backslash, LowerR>>
    ELSE IF c = Tab THEN <<Backslash, LowerT>>
    ELSE IF c = Backspace THEN <<Backslash, LowerB>>
    ELSE IF c = FormFeed THEN <<Backslash, LowerF>>
    ELSE IF c >= Space /\ c <= Tilde THEN <<c>>
    ELSE IF c < Plane1 THEN U4(c)
    ELSE U4(HighSurrogate + ((c - Plane1) \div 1024)) \o U4(LowSurrogate + ((c - Plane1) % 1024))

RECURSIVE EscapeStr(_)
EscapeStr(t) == IF t = <<>> THEN <<>> ELSE EscapeChar(Head(t)) \o EscapeStr(Tail(t))

RECURSIVE JoinQuoted(_)
JoinQuoted(l) ==
    IF l = <<>> THEN <<>>
    ELSE <<Quote>> \o EscapeStr(Head(l)) \o <<Quote>> \o
         (IF Tail(l) = <<>> THEN <<>> ELSE <<Comma, Space>> \o JoinQuoted(Tail(l)))

JsonDump(l) == <<LBracket>> \o JoinQuoted(l) \o <<RBracket>>

IsWs(c) == c \in {Space, Tab, Newline, Return}

RECURSIVE SkipWs(_, _)
SkipWs(s, i) == IF i <= Len(s) /\ IsWs(s[i]) THEN SkipWs(s, i + 1) ELSE i

IsAsciiDigit(c) == c \in Zero..Nine

\* [0-9]* from s[j] on: the position of the first character that is no digit
DigitsEnd(s, j) ==
    LET stops == {k \in j..Len(s) : ~IsAsciiDigit(s[k])}
    IN  IF stops = {} THEN Len(s) + 1 ELSE CHOOSE k \in stops : \A m \in stops : k <= m

\* int() of a text of ASCII digits
RECURSIVE IntOf(_)
IntOf(t) == IF t = <<>> THEN 0 ELSE IntOf(SubSeq(t, 1, Len(t) - 1)) * 10 + (t[Len(t)] - Zero)

\* the value of a hexadecimal digit, -1 for any other character
HexVal(c) ==
    IF c \in Zero..Nine THEN c - Zero
    ELSE IF c \in LowerA..LowerF THEN c - LowerA + 10
    ELSE IF c \in UpperA..UpperF THEN c - UpperA + 10
    ELSE -1

\* the number written by the four characters from s[j] on, -1 when they are
\* not four hexadecimal digits
Hex4(s, j) ==
    IF j + 3 > Len(s) \/ \E k \in 0..3 : HexVal(s[j + k]) < 0 THEN -1
    ELSE HexVal(s[j]) * 4096 + HexVal(s[j + 1]) * 256 + HexVal(s[j + 2]) * 16 + HexVal(s[j + 3])

\* s has the text lit at position i
HasAt(s, i, lit) == i + Len(lit) - 1 <= Len(s) /\ SubSeq(s, i, i + Len(lit) - 1) = lit

JsonFail == [ok |-> FALSE, next |-> 0, type |-> "none", val |-> <<>>, pure |-> FALSE]
JsonVal(n, t, v, p) == [ok |-> TRUE, next |-> n, type |-> t, val |-> v, pure |-> p]

\* an element of a list or the value of a dict item
Elem(v) == IF v.type = "str" THEN v.val ELSE [json |-> v.type, val |-> v.val]

\* the character a backslash escape stands for, -1 for an invalid escape
Unescape(c) ==
    IF c \in {Quote, Backslash, Slash} THEN c
    ELSE IF c = LowerB THEN Backspace
    ELSE IF c = LowerF THEN FormFeed
    ELSE IF c = LowerN THEN Newline
    ELSE IF c = LowerR THEN Return
    ELSE IF c = LowerT THEN Tab
    ELSE -1

\* scanstring: the str whose characters start at s[j], after the opening
\* quote; acc holds the characters read
RECURSIVE ParseString(_, _, _)
ParseString(s, j, acc) ==
    IF j > Len(s) THEN JsonFail
    ELSE IF s[j] = Quote THEN JsonVal(j + 1, "str", acc, TRUE)
    ELSE IF s[j] < Space THEN JsonFail
    ELSE IF s[j] # Backslash THEN ParseString(s, j + 1, Append(acc, s[j]))
    ELSE IF j + 1 > Len(s) THEN JsonFail
    ELSE IF s[j + 1] # LowerU THEN
        IF Unescape(s[j + 1]) < 0 THEN JsonFail
        ELSE ParseString(s, j + 2, Append(acc, Unescape(s[j + 1])))
    ELSE
        LET hi == Hex4(s, j + 2)
            lo == IF HasAt(s, j + 6, <<Backslash, LowerU>>) THEN Hex4(s, j + 8) ELSE -1
        IN  IF hi < 0 THEN JsonFail
            ELSE IF /\ hi \in HighSurrogate..(LowSurrogate - 1)
                    /\ lo \in LowSurrogate..(LowSurrogate + 1023)
            THEN ParseString(s, j + 12,
                     Append(acc, Plane1 + (hi - HighSurrogate) * 1024 + (lo - LowSurrogate)))
            ELSE ParseString(s, j + 6, Append(acc, hi))

LitTrue == <<LowerT, LowerR, LowerU, LowerE>>
LitFalse == <<LowerF, LowerA, LowerL, LowerS, LowerE>>
LitNull == <<LowerN, LowerU, LowerL, LowerL>>
LitNaN == <<UpperN, LowerA, UpperN>>
LitInfinity == <<UpperI, LowerN, LowerF, LowerI, LowerN, LowerI, LowerT, LowerY>>

\* the position after an optional sign from `signs' at s[i]
SignEnd(s, i, signs) == IF i <= Len(s) /\ s[i] \in signs THEN i + 1 ELSE i

\* (0|[1-9][0-9]*) from s[d] on: the position after it, d when it is absent
IntEnd(s, d) == IF d <= Len(s) /\ s[d] = Zero THEN d + 1 ELSE DigitsEnd(s, d)

\* (\.[0-9]+)? from s[e] on
FracEnd(s, e) ==
    IF e + 1 <= Len(s) /\ s[e] = Dot /\ IsAsciiDigit(s[e + 1])
    THEN DigitsEnd(s, e + 1) ELSE e

\* the digits of an exponent whose sign ends before s[y]; f when there are none
ExpDigitsEnd(s, f, y) == IF y <= Len(s) /\ IsAsciiDigit(s[y]) THEN DigitsEnd(s, y) ELSE f

\* ([eE][-+]?[0-9]+)? from s[f] on
ExpEnd(s, f) ==
    IF f <= Len(s) /\ s[f] \in {LowerE, UpperE}
    THEN ExpDigitsEnd(s, f, SignEnd(s, f + 1, {Plus, Minus})) ELSE f

\* the number whose integer part is s[d..e-1] and whose text ends before
\* s[g]; an int of more than MaxStrDigits digits raises ValueError
NumberValue(s, i, d, e, g) ==
    IF e = d THEN JsonFail
    ELSE IF g > e THEN JsonVal(g, "float", SubSeq(s, i, g - 1), TRUE)
    ELSE IF e - d > MaxStrDigits THEN JsonFail
    ELSE JsonVal(e, "int", (IF d > i THEN -1 ELSE 1) * IntOf(SubSeq(s, d, e - 1)), TRUE)

NumberFromInt(s, i, d, e) == NumberValue(s, i, d, e, ExpEnd(s, FracEnd(s, e)))

NumberFromSign(s, i, d) == NumberFromInt(s, i, d, IntEnd(s, d))

\* _match_number: -?(0|[1-9][0-9]*)(\.[0-9]+)?([eE][-+]?[0-9]+)? from s[i] on
ParseNumber(s, i) == NumberFromSign(s, i, SignEnd(s, i, {Minus}))

\* dict[key] = v on the items read so far
RECURSIVE PutItem(_, _, _)
PutItem(items, key, v) ==
    IF items = <<>> THEN <<[key |-> key, val |-> v]>>
    ELSE IF Head(items).key = key THEN <<[key |-> key, val |-> v]>> \o Tail(items)
    ELSE <<Head(items)>> \o PutItem(Tail(items), key, v)

\* the arrays and objects that json.load can enter inside one another: the
\* scanner enters each through Py_EnterRecursiveCall, the recursion limit is
\* the interpreter's 1000, which the program never changes, and the frames
\* in use when the scanner starts (the module, main, __init__,
\* load_schedule, json.load and the decoder under it) leave room for 990
\* levels; one level more raises RecursionError
MaxNesting == 990

RECURSIVE ParseValue(_, _, _), ParseElems(_, _, _, _, _), ParseMembers(_, _, _, _)

\* scan_once: the value that starts at s[i], inside depth arrays and objects
ParseValue(s, i, depth) ==
    IF i > Len(s) THEN JsonFail
    ELSE IF s[i] = Quote THEN ParseString(s, i + 1, <<>>)
    ELSE IF s[i] \in {LBracket, LBrace} /\ depth >= MaxNesting THEN JsonFail
    ELSE IF s[i] = LBracket THEN
        LET j == SkipWs(s, i + 1)
        IN  IF j > Len(s) THEN JsonFail
            ELSE IF s[j] = RBracket THEN JsonVal(j + 1, "list", <<>>, TRUE)
            ELSE ParseElems(s, j, <<>>, TRUE, depth + 1)
    ELSE IF s[i] = LBrace THEN
        LET j == SkipWs(s, i + 1)
        IN  IF j > Len(s) THEN JsonFail
            ELSE IF s[j] = RBrace THEN JsonVal(j + 1, "dict", <<>>, TRUE)
            ELSE ParseMembers(s, j, <<>>, depth + 1)
    ELSE IF HasAt(s, i, LitNull) THEN JsonVal(i + 4, "null", <<>>, TRUE)
    ELSE IF HasAt(s, i, LitTrue) THEN JsonVal(i + 4, "bool", TRUE, TRUE)
    ELSE IF HasAt(s, i, LitFalse) THEN JsonVal(i + 5, "bool", FALSE, TRUE)
    ELSE IF HasAt(s, i, LitNaN) THEN JsonVal(i + 3, "float", LitNaN, TRUE)
    ELSE IF HasAt(s, i, LitInfinity) THEN JsonVal(i + 8, "float", LitInfinity, TRUE)
    ELSE IF HasAt(s, i, <<Minus>> \o LitInfinity)
         THEN JsonVal(i + 9, "float", <<Minus>> \o LitInfinity, TRUE)
    ELSE ParseNumber(s, i)

\* the elements of an array from s[j] on, depth being the nesting of the
\* array itself; acc holds the elements read
ParseElems(s, j, acc, pure, depth) ==
    LET v == ParseValue(s, j, depth)
        k == SkipWs(s, v.next)
        acc2 == Append(acc, Elem(v))
        pure2 == pure /\ v.type = "str"
    IN  IF ~v.ok \/ k > Len(s) THEN JsonFail
        ELSE IF s[k] = RBracket THEN JsonVal(k + 1, "list", acc2, pure2)
        ELSE IF s[k] = Comma THEN ParseElems(s, SkipWs(s, k + 1), acc2, pure2, depth)
        ELSE JsonFail

\* the items of an object from the key at s[j] on, depth being the nesting
\* of the object itself; acc holds the items read
ParseMembers(s, j, acc, depth) ==
    LET key == IF j <= Len(s) /\ s[j] = Quote THEN ParseString(s, j + 1, <<>>) ELSE JsonFail
        c == SkipWs(s, key.next)
        v == IF key.ok /\ c <= Len(s) /\ s[c] = Colon
             THEN ParseValue(s, SkipWs(s, c + 1), depth) ELSE JsonFail
        k == SkipWs(s, v.next)
        acc2 == PutItem(acc, key.val, Elem(v))
    IN  IF ~v.ok \/ k > Len(s) THEN JsonFail
        ELSE IF s[k] = RBrace THEN JsonVal(k + 1, "dict", acc2, TRUE)
        ELSE IF s[k] = Comma THEN ParseMembers(s, SkipWs(s, k + 1), acc2, depth)
        ELSE JsonFail

\* raw_decode gave v: only white space may follow it ("Extra data")
WholeText(s, v) == IF v.ok /\ SkipWs(s, v.next) = Len(s) + 1 THEN v ELSE JsonFail

\* json.load: fails on an unparsable text, on extra data after the value and
\* on a value nested deeper than MaxNesting
JsonLoad(s) == WholeText(s, ParseValue(s, SkipWs(s, 1), 0))

(***************************************************************************)
(* The schedule store.                                                     *)
(***************************************************************************)
DEFAULT_SCHEDULE == <<T(0, 6, 0, 0), T(1, 2, 0, 0), T(1, 6, 0, 2)>>

NoFile == [exists |-> FALSE, text |-> <<>>]
FileOf(text) == [exists |-> TRUE, text |-> text]

\* the list object DEFAULT_SCHEDULE.copy() returns
DefaultCopy == [list |-> DEFAULT_SCHEDULE, object |-> "copy"]

\* what load_schedule returns once json.load has given data: data itself
\* when it is a list, a copy of the default when json.load raised or gave
\* another value
Loaded(data) ==
    IF data.ok /\ data.type = "list" THEN [list |-> data.val, object |-> "json.load"]
    ELSE DefaultCopy

\* a load whose fallback returns the module-level list itself
load_schedule_shared(f) ==
    IF f.exists /\ Loaded(JsonLoad(f.text)) # DefaultCopy THEN Loaded(JsonLoad(f.text))
    ELSE [list |-> DEFAULT_SCHEDULE, object |-> "DEFAULT_SCHEDULE"]

\* load_schedule: the entries of the list it returns, and which list object
\* that is: the one json.load built, or the one DEFAULT_SCHEDULE.copy()
\* built when the file is absent, json.load raised or the value is no list
load_schedule(f) == IF f.exists THEN Loaded(JsonLoad(f.text)) ELSE DefaultCopy

\* the loaded list is the module-level list itself: add_time and
\* remove_time change self.schedule in place, and with it every name of the
\* same object
SharesDefault(loaded) == loaded.object = "DEFAULT_SCHEDULE"

\* json.load gave a list with an element that is no str
MixedList(data) == data.ok /\ data.type = "list" /\ ~data.pure

\* QListWidget.addItems accepts str items only: a list with another kind of
\* element makes __init__ raise and no window is ever shown
Constructible(f) == f.exists => ~MixedList(JsonLoad(f.text))

\* a save that opens the file for appending
save_schedule_appends(f, l) ==
    LET text == JsonDump(l)
    IN  {[file |-> f, raised |-> TRUE], [file |-> FileOf(f.text \o text), raised |-> FALSE]}
        \cup {[file |-> FileOf(f.text \o SubSeq(text, 1, k)), raised |-> TRUE] : k \in 0..Len(text)}

\* save_schedule: the files that open(SCHEDULE_FILE, "w") and json.dump(l)
\* can leave, each with whether an exception was raised.  open raises and
\* the file stays as it was; or open truncates the file and the write or the
\* close raises after k characters of the text have reached it; or the whole
\* text is written and nothing is raised.  Every exception is caught and
\* logged.
save_schedule(f, l) ==
    LET text == JsonDump(l)
    IN  {[file |-> f, raised |-> TRUE], [file |-> FileOf(text), raised |-> FALSE]}
        \cup {[file |-> FileOf(SubSeq(text, 1, k)), raised |-> TRUE] : k \in 0..Len(text)}

(***************************************************************************)
(* Inputs of the model.                                                    *)
(***************************************************************************)
\* self.last_feed_time = None is modelled by the empty text, which strftime
\* never returns
NoTime == <<>>

T0600 == T(0, 6, 0, 0)
T0601 == T(0, 6, 0, 1)
T1200 == T(1, 2, 0, 0)

\* schedule.json when the application starts
FileValues ==
    { NoFile,
      FileOf(<<>>),
      FileOf(<<LBracket, Quote>>),
      FileOf(<<LBrace, RBrace>>),
      FileOf(<<LBracket, Zero + 7, RBracket>>),
      FileOf(JsonDump(DEFAULT_SCHEDULE)),
      FileOf(JsonDump(<<T0600>>)),
      FileOf(JsonDump(<<T0600, T0601>>)),
      FileOf(JsonDump(<<T1200, T0600>>)),
      FileOf(JsonDump(<<T0600, T0600>>)) }

\* texts typed into the "Add Feeding Time" dialog
TimeInputs ==
    { T0600, T0601,
      <<ArabicZero + 6, Colon, Zero, Zero>>,
      T(2, 4, 0, 0),
      <<>> }

\* results of the dialog: a confirmed text, or a cancelled dialog
DialogResults ==
    {[time |-> t, ok |-> TRUE] : t \in TimeInputs} \cup {[time |-> T0601, ok |-> FALSE]}

\* the wall clock when the application starts
StartClock == 6 * 3600 - 30

(***************************************************************************)
(* State after PetFeederApp.__init__.                                      *)
(***************************************************************************)
InitWith(files) ==
    /\ file \in {f \in files : Constructible(f)}
    /\ \E loaded \in {load_schedule(file)} :
           /\ schedule = loaded.list
           /\ shares_default = SharesDefault(loaded)
    /\ default_schedule = DEFAULT_SCHEDULE
    /\ list_items = schedule
    /\ current_row = -1
    /\ last_feed_time = NoTime
    /\ connected = FALSE
    /\ robot = None
    /\ stepper = None
    /\ camera = None
    /\ connect_btn = TRUE
    /\ feed_btn = FALSE
    /\ refresh_cam_btn = FALSE
    /\ status = "Status: Not connected"
    /\ camera_label = "blank"
    /\ tasks = EmptyBag
    /\ clock = StartClock
    /\ aborted = FALSE
    /\ fired = EmptyBag
    /\ last_feed = [kind |-> "none", calls |-> <<>>]

Init == InitWith(FileValues)

(***************************************************************************)
(* Coroutines on the event loop.  An asyncSlot handler and a create_task   *)
(* call only schedule the coroutine: its body runs in a later iteration of *)
(* the loop, up to its first await, and then between awaits.               *)
(*                                                                         *)
(* A QMessageBox shown by a coroutine keeps that coroutine in its step and *)
(* runs a nested event loop until the user dismisses it: the window takes  *)
(* no input, both timers keep firing, and a coroutine that is woken in the *)
(* nested loop cannot be entered ("Cannot enter into task ... while        *)
(* another task ... is being executed") and is never resumed: it stays     *)
(* pending until the garbage collector destroys it, which closes its       *)
(* coroutine and runs the finally clause the coroutine was suspended in.   *)
(* The dialogs of add_time are shown by a plain slot; add_time is one step *)
(* taken when its dialog returns.                                          *)
(***************************************************************************)
Task(kind, pc, calls) == [kind |-> kind, pc |-> pc, calls |-> calls]

Pending == BagToSet(tasks)
Room == BagCardinality(tasks) < MaxTasks

Spawn(t) == tasks' = tasks (+) SetToBag({t})
Finish(t) == tasks' = tasks (-) SetToBag({t})
Step(t, u) == tasks' = (tasks (-) SetToBag({t})) (+) SetToBag({u})

\* positions of a coroutine inside QMessageBox.warning / QMessageBox.critical
BoxPcs == {"warning_box", "error_box"}
BoxOpen == \E t \in Pending : t.pc \in BoxPcs

\* positions of a coroutine whose wake-up failed: before its first step, or
\* suspended at an await
LostPcs == {"never_entered", "never_resumed"}

\* the process is alive
Running == ~aborted

\* the event loop can run a step of a coroutine
CanStep == Running /\ ~BoxOpen

\* the window takes clicks
Interactive == Running /\ ~BoxOpen

(***************************************************************************)
(* The schedule editor.                                                    *)
(***************************************************************************)
\* the user selects a row of the schedule list
select_row ==
    /\ Interactive
    /\ \E r \in 0..(Len(list_items) - 1) : current_row' = r
    /\ UNCHANGED <<file, default_schedule, shares_default, schedule, list_items,
                   last_feed_time, connVars,
                   feed_btn, refresh_cam_btn, status, camera_label, tasks, clock,
                   aborted, fired, last_feed>>

\* add_time accepts the text when the dialog was confirmed, the text is not
\* empty, strptime parses it and it is not yet in the schedule
Accepts(d, sched) ==
    /\ d.ok /\ d.time # <<>>
    /\ StrptimeOK(d.time)
    /\ d.time \notin Range(sched)

\* an add_time that leaves the list widget as it was
add_time_stale_list(d) ==
    /\ Interactive
    /\ Len(schedule) < MaxSchedule
    /\ IF Accepts(d, schedule)
       THEN /\ schedule' = Sort(Append(schedule, d.time))
            /\ UNCHANGED <<list_items, current_row>>
            /\ default_schedule' = IF shares_default THEN schedule' ELSE default_schedule
            /\ \E r \in save_schedule(file, schedule') : file' = r.file
       ELSE UNCHANGED <<file, default_schedule, schedule, list_items, current_row>>
    /\ UNCHANGED <<shares_default, last_feed_time, connVars, feed_btn, refresh_cam_btn,
                   status, camera_label, tasks, clock, aborted, fired, last_feed>>

\* add_time with the result d = [time, ok] of QInputDialog.getText
add_time(d) ==
    /\ Interactive
    /\ Len(schedule) < MaxSchedule
    /\ IF Accepts(d, schedule)
       THEN /\ schedule' = Sort(Append(schedule, d.time))
            /\ list_items' = schedule'
            /\ current_row' = -1
            /\ default_schedule' = IF shares_default THEN schedule' ELSE default_schedule
            /\ \E r \in save_schedule(file, schedule') : file' = r.file
       ELSE UNCHANGED <<file, default_schedule, schedule, list_items, current_row>>
    /\ UNCHANGED <<shares_default, last_feed_time, connVars, feed_btn, refresh_cam_btn,
                   status, camera_label, tasks, clock, aborted, fired, last_feed>>

\* remove_time: list.pop raises IndexError for a row the schedule does not
\* have, before anything is changed
remove_time ==
    /\ Interactive
    /\ IF current_row >= 0 /\ current_row < Len(schedule)
       THEN /\ schedule' = RemoveAt(schedule, current_row)
            /\ list_items' = RemoveAt(list_items, current_row)
            /\ current_row' = IF current_row < Len(list_items') THEN current_row
                              ELSE Len(list_items') - 1
            /\ default_schedule' = IF shares_default THEN schedule' ELSE default_schedule
            /\ \E r \in save_schedule(file, schedule') : file' = r.file
       ELSE UNCHANGED <<file, default_schedule, schedule, list_items, current_row>>
    /\ UNCHANGED <<shares_default, last_feed_time, connVars, feed_btn, refresh_cam_btn,
                   status, camera_label, tasks, clock, aborted, fired, last_feed>>

AddTime == \E d \in DialogResults : add_time(d)

NextSchedule == select_row \/ AddTime \/ remove_time

SpecSchedule == Init /\ [][NextSchedule]_vars

(***************************************************************************)
(* on_connect                                                              *)
(***************************************************************************)
ConnectOutcomes == {"ok", "at_address_raises", "motor_raises", "camera_raises"}

\* the user clicks "Connect to Robot"
connect_clicked ==
    /\ Interactive
    /\ connect_btn /\ Room
    /\ Spawn(Task("on_connect", "start", <<>>))
    /\ UNCHANGED <<schedVars, last_feed_time, connVars, feed_btn, refresh_cam_btn,
                   status, camera_label, clock, aborted, fired, last_feed>>

\* on_connect up to the await of RobotClient.at_address
on_connect_start ==
    /\ CanStep
    /\ Task("on_connect", "start", <<>>) \in Pending
    /\ status' = "Status: Connecting..."
    /\ connect_btn' = FALSE
    /\ Step(Task("on_connect", "start", <<>>), Task("on_connect", "at_address", <<>>))
    /\ UNCHANGED <<schedVars, last_feed_time, connected, robot, stepper, camera,
                   feed_btn, refresh_cam_btn, camera_label, clock, aborted, fired,
                   last_feed>>

\* on_connect from the return of at_address to its end, or to the message
\* box of its exception handler
on_connect_resume(outcome) ==
    /\ CanStep
    /\ Task("on_connect", "at_address", <<>>) \in Pending
    /\ robot' = IF outcome = "at_address_raises" THEN robot ELSE "RobotClient"
    /\ stepper' = IF outcome \in {"ok", "camera_raises"} THEN "Motor" ELSE stepper
    /\ camera' = IF outcome = "ok" THEN "Camera" ELSE camera
    /\ IF outcome = "ok"
       THEN /\ connected' = TRUE
            /\ status' = "Status: Connected!"
            /\ feed_btn' = TRUE
            /\ refresh_cam_btn' = TRUE
            /\ Finish(Task("on_connect", "at_address", <<>>))
       ELSE /\ status' = "Status: Connection failed"
            /\ Step(Task("on_connect", "at_address", <<>>), Task("on_connect", "error_box", <<>>))
            /\ UNCHANGED <<connected, feed_btn, refresh_cam_btn>>
    /\ UNCHANGED <<schedVars, last_feed_time, connect_btn, camera_label, clock, aborted,
                   fired, last_feed>>

\* the user dismisses the "Connection Error" box: the handler enables the
\* button and on_connect ends
on_connect_dismissed ==
    /\ Running
    /\ Task("on_connect", "error_box", <<>>) \in Pending
    /\ connect_btn' = TRUE
    /\ Finish(Task("on_connect", "error_box", <<>>))
    /\ UNCHANGED <<schedVars, last_feed_time, connected, robot, stepper, camera,
                   feed_btn, refresh_cam_btn, status, camera_label, clock, aborted,
                   fired, last_feed>>

on_connect ==
    \/ on_connect_start
    \/ \E outcome \in ConnectOutcomes : on_connect_resume(outcome)
    \/ on_connect_dismissed

\* while a coroutine sits in a message box, the loop wakes another one: its
\* step fails before any of its code runs and nothing wakes it again
wakeup_in_message_box ==
    /\ Running /\ BoxOpen
    /\ \E t \in Pending :
           /\ t.pc \notin BoxPcs \cup LostPcs
           /\ Step(t, Task(t.kind, IF t.pc = "start" THEN "never_entered" ELSE "never_resumed",
                           t.calls))
    /\ UNCHANGED <<schedVars, last_feed_time, connVars, feed_btn, refresh_cam_btn,
                   status, camera_label, clock, aborted, fired, last_feed>>

\* the garbage collector destroys a task that was never resumed ("Task was
\* destroyed but it is pending!") and closes its coroutine: GeneratorExit is
\* raised at the await, no except clause catches it, and the finally clause
\* of on_feed enables Feed Now, that of _refresh_camera enables Refresh
\* Camera; a coroutine that was never entered runs nothing
task_destroyed ==
    /\ Running
    /\ \E t \in Pending :
           /\ t.pc \in LostPcs
           /\ feed_btn' = IF t.kind = "on_feed" /\ t.pc = "never_resumed" THEN TRUE ELSE feed_btn
           /\ refresh_cam_btn' = IF t.kind \in {"camera_manual", "camera_auto"} /\ t.pc = "never_resumed"
                                 THEN TRUE ELSE refresh_cam_btn
           /\ Finish(t)
    /\ UNCHANGED <<schedVars, last_feed_time, connVars, status, camera_label, clock,
                   aborted, fired, last_feed>>

(***************************************************************************)
(* check_schedule, scheduled_feed and on_feed                              *)
(***************************************************************************)
\* a guard that lets every caller through
StepperReady_always == TRUE

\* "not self.connected or not self.stepper" is false
StepperReady == connected /\ stepper # None

\* asyncio.create_task(self.scheduled_feed()) is handed the Task the
\* asyncSlot wrapper has already scheduled and raises TypeError out of the
\* timer slot: PyQt either ends the process (qFatal) or, with an older
\* PyQt or a replaced sys.excepthook, reports the exception and goes on
SlotErrorOutcomes == BOOLEAN

\* check_schedule that forgets to set the marker
check_schedule_keeps_marker(now) ==
    LET current_time == Strftime(now)
    IN  IF /\ StepperReady
           /\ current_time \in Range(schedule)
           /\ last_feed_time # current_time
        THEN /\ Room
             /\ Spawn(Task("scheduled_feed", "start", <<>>))
             /\ fired' = fired (+) SetToBag({now})
             /\ aborted' \in SlotErrorOutcomes
             /\ UNCHANGED last_feed_time
        ELSE UNCHANGED <<last_feed_time, tasks, fired, aborted>>

\* check_schedule that does not compare the marker
check_schedule_ignores_marker(now) ==
    LET current_time == Strftime(now)
    IN  IF /\ StepperReady
           /\ current_time \in Range(schedule)
        THEN /\ Room
             /\ last_feed_time' = current_time
             /\ Spawn(Task("scheduled_feed", "start", <<>>))
             /\ fired' = fired (+) SetToBag({now})
             /\ aborted' \in SlotErrorOutcomes
        ELSE UNCHANGED <<last_feed_time, tasks, fired, aborted>>

\* check_schedule with datetime.now() = now
check_schedule(now) ==
    LET current_time == Strftime(now)
    IN  IF /\ StepperReady
           /\ current_time \in Range(schedule)
           /\ last_feed_time # current_time
        THEN /\ Room
             /\ last_feed_time' = current_time
             /\ Spawn(Task("scheduled_feed", "start", <<>>))
             /\ fired' = fired (+) SetToBag({now})
             /\ aborted' \in SlotErrorOutcomes
        ELSE UNCHANGED <<last_feed_time, tasks, fired, aborted>>

\* seconds between two timeouts of the schedule timer
PollIntervals == {30, 60}

\* a timeout of schedule_timer, within span seconds of the start
schedule_timer(span) ==
    /\ Running
    /\ \E dt \in PollIntervals :
        /\ clock + dt <= StartClock + span
        /\ clock' = clock + dt
        /\ check_schedule(clock')
        /\ UNCHANGED <<schedVars, connVars, feed_btn, refresh_cam_btn, status,
                       camera_label, last_feed>>

StatusBusy(kind) ==
    IF kind = "on_feed" THEN "Status: Feeding..." ELSE "Status: Scheduled feeding..."
StatusComplete(kind) ==
    IF kind = "on_feed" THEN "Status: Feed complete!" ELSE "Status: Scheduled feed complete!"
StatusFailed(kind) ==
    IF kind = "on_feed" THEN "Status: Feed failed!" ELSE "Status: Scheduled feed failed!"

\* the user clicks "Feed Now"
feed_clicked ==
    /\ Interactive
    /\ feed_btn /\ Room
    /\ Spawn(Task("on_feed", "start", <<>>))
    /\ UNCHANGED <<schedVars, last_feed_time, connVars, feed_btn, refresh_cam_btn,
                   status, camera_label, clock, aborted, fired, last_feed>>

\* the coroutine up to the await of go_for: when not connected
\* scheduled_feed returns at once and on_feed shows a warning, else the run
\* command is issued
feed_start(kind) ==
    /\ CanStep
    /\ Task(kind, "start", <<>>) \in Pending
    /\ IF ~StepperReady
       THEN /\ IF kind = "on_feed"
               THEN Step(Task(kind, "start", <<>>), Task(kind, "warning_box", <<>>))
               ELSE Finish(Task(kind, "start", <<>>))
            /\ UNCHANGED <<feed_btn, status>>
       ELSE /\ feed_btn' = IF kind = "on_feed" THEN FALSE ELSE feed_btn
            /\ status' = StatusBusy(kind)
            /\ Step(Task(kind, "start", <<>>), Task(kind, "go_for", <<"go_for">>))
    /\ UNCHANGED <<schedVars, last_feed_time, connVars, refresh_cam_btn, camera_label,
                   clock, aborted, fired, last_feed>>

\* an end of the coroutine that starts the feed again after a failure
feed_end_retries(t, text) ==
    /\ tasks' = IF text = StatusFailed(t.kind)
                THEN (tasks (-) SetToBag({t})) (+) SetToBag({Task(t.kind, "start", <<>>)})
                ELSE tasks (-) SetToBag({t})
    /\ status' = text
    /\ feed_btn' = IF t.kind = "on_feed" THEN TRUE ELSE feed_btn
    /\ last_feed' = [kind |-> t.kind, calls |-> t.calls]

\* the end of the coroutine: status, and the finally clause of on_feed
feed_end(t, text) ==
    /\ Finish(t)
    /\ status' = text
    /\ feed_btn' = IF t.kind = "on_feed" THEN TRUE ELSE feed_btn
    /\ last_feed' = [kind |-> t.kind, calls |-> t.calls]

\* the exception handler: scheduled_feed sets the status and ends, on_feed
\* first shows the "Feed Error" box
feed_raises(t) ==
    IF t.kind = "on_feed"
    THEN /\ Step(t, Task(t.kind, "error_box", t.calls))
         /\ UNCHANGED <<feed_btn, status, last_feed>>
    ELSE feed_end(t, StatusFailed(t.kind))

\* go_for returns or raises; after a return the stop command is issued
feed_go_for(kind, ok) ==
    LET t == Task(kind, "go_for", <<"go_for">>)
    IN  /\ CanStep
        /\ t \in Pending
        /\ IF ok
           THEN /\ Step(t, Task(kind, "stop", <<"go_for", "stop">>))
                /\ UNCHANGED <<feed_btn, status, last_feed>>
           ELSE feed_raises(t)
        /\ UNCHANGED <<schedVars, last_feed_time, connVars, refresh_cam_btn,
                       camera_label, clock, aborted, fired>>

\* stop returns or raises
feed_stop(kind, ok) ==
    LET t == Task(kind, "stop", <<"go_for", "stop">>)
    IN  /\ CanStep
        /\ t \in Pending
        /\ IF ok THEN feed_end(t, StatusComplete(kind)) ELSE feed_raises(t)
        /\ UNCHANGED <<schedVars, last_feed_time, connVars, refresh_cam_btn,
                       camera_label, clock, aborted, fired>>

\* the user dismisses a box of on_feed: after "Not Connected" the handler
\* returns, after "Feed Error" it sets the status and runs its finally
\* clause
on_feed_dismissed ==
    /\ Running
    /\ \E t \in Pending :
        /\ t.kind = "on_feed" /\ t.pc \in BoxPcs
        /\ IF t.pc = "warning_box"
           THEN Finish(t) /\ UNCHANGED <<feed_btn, status, last_feed>>
           ELSE feed_end(t, StatusFailed(t.kind))
    /\ UNCHANGED <<schedVars, last_feed_time, connVars, refresh_cam_btn,
                   camera_label, clock, aborted, fired>>

feed(kind) ==
    \/ feed_start(kind)
    \/ \E ok \in BOOLEAN : feed_go_for(kind, ok)
    \/ \E ok \in BOOLEAN : feed_stop(kind, ok)

scheduled_feed == feed("scheduled_feed")
on_feed == feed("on_feed") \/ on_feed_dismissed

(***************************************************************************)
(* on_refresh_camera, refresh_camera_auto and _refresh_camera              *)
(***************************************************************************)
CameraReady == connected /\ camera # None

CameraKinds == {"camera_manual", "camera_auto"}
ImageOutcomes == {"frame", "undecodable", "raises"}

\* the user clicks "Refresh Camera"
refresh_clicked ==
    /\ Interactive
    /\ refresh_cam_btn /\ Room
    /\ Spawn(Task("camera_manual", "start", <<>>))
    /\ UNCHANGED <<schedVars, last_feed_time, connVars, feed_btn, refresh_cam_btn,
                   status, camera_label, clock, aborted, fired, last_feed>>

\* a timeout of camera_timer
refresh_camera_auto ==
    /\ Running
    /\ IF CameraReady
       THEN Room /\ Spawn(Task("camera_auto", "start", <<>>))
       ELSE UNCHANGED tasks
    /\ UNCHANGED <<schedVars, last_feed_time, connVars, feed_btn, refresh_cam_btn,
                   status, camera_label, clock, aborted, fired, last_feed>>

\* _refresh_camera up to the await of get_image; when not connected a
\* manual refresh shows a warning before it enables the button again
refresh_camera_start(kind) ==
    /\ CanStep
    /\ Task(kind, "start", <<>>) \in Pending
    /\ IF ~CameraReady
       THEN /\ IF kind = "camera_manual"
               THEN /\ refresh_cam_btn' = FALSE
                    /\ Step(Task(kind, "start", <<>>), Task(kind, "warning_box", <<>>))
               ELSE /\ refresh_cam_btn' = TRUE
                    /\ Finish(Task(kind, "start", <<>>))
            /\ UNCHANGED status
       ELSE /\ refresh_cam_btn' = FALSE
            /\ status' = IF kind = "camera_manual" THEN "Status: Fetching camera..." ELSE status
            /\ Step(Task(kind, "start", <<>>), Task(kind, "get_image", <<>>))
    /\ UNCHANGED <<schedVars, last_feed_time, connVars, feed_btn, camera_label,
                   clock, aborted, fired, last_feed>>

\* get_image returns a JPEG, returns bytes QImage cannot decode (a null
\* pixmap is drawn), or raises; a manual refresh that raised shows the
\* "Camera Error" box
refresh_camera_resume(kind, outcome) ==
    /\ CanStep
    /\ Task(kind, "get_image", <<>>) \in Pending
    /\ camera_label' = CASE outcome = "frame" -> "frame"
                         [] outcome = "undecodable" -> "null"
                         [] outcome = "raises" -> camera_label
    /\ IF outcome = "raises" /\ kind = "camera_manual"
       THEN /\ Step(Task(kind, "get_image", <<>>), Task(kind, "error_box", <<>>))
            /\ UNCHANGED <<status, refresh_cam_btn>>
       ELSE /\ Finish(Task(kind, "get_image", <<>>))
            /\ status' = IF kind = "camera_auto" THEN status ELSE "Status: Camera updated!"
            /\ refresh_cam_btn' = TRUE
    /\ UNCHANGED <<schedVars, last_feed_time, connVars, feed_btn, clock, aborted, fired,
                   last_feed>>

\* the user dismisses a box of a manual refresh: after "Not Connected" the
\* button is enabled, after "Camera Error" the status is set and the
\* finally clause enables the button
refresh_camera_dismissed ==
    /\ Running
    /\ \E t \in Pending :
        /\ t.kind = "camera_manual" /\ t.pc \in BoxPcs
        /\ status' = IF t.pc = "error_box" THEN "Status: Camera failed!" ELSE status
        /\ refresh_cam_btn' = TRUE
        /\ Finish(t)
    /\ UNCHANGED <<schedVars, last_feed_time, connVars, feed_btn, camera_label,
                   clock, aborted, fired, last_feed>>

_refresh_camera ==
    \/ \E kind \in CameraKinds :
        \/ refresh_camera_start(kind)
        \/ \E outcome \in ImageOutcomes : refresh_camera_resume(kind, outcome)
    \/ refresh_camera_dismissed

(***************************************************************************)
(* Specifications.                                                         *)
(***************************************************************************)
\* the whole application over a short stretch of wall clock
Next ==
    \/ connect_clicked
    \/ on_connect
    \/ wakeup_in_message_box
    \/ task_destroyed
    \/ schedule_timer(ShortSpan)
    \/ feed_clicked
    \/ on_feed
    \/ scheduled_feed
    \/ refresh_clicked
    \/ refresh_camera_auto
    \/ _refresh_camera

Spec == InitWith({NoFile, FileOf(JsonDump(<<T0600, T0601>>))}) /\ [][Next]_vars

\* the one text added by the editor of SpecTimer
AddTimeTimer == add_time([time |-> T0601, ok |-> TRUE])

\* the schedule timer and the schedule editor over a short stretch of wall
\* clock
NextTimer ==
    \/ connect_clicked
    \/ on_connect
    \/ wakeup_in_message_box
    \/ task_destroyed
    \/ schedule_timer(ShortSpan)
    \/ scheduled_feed
    \/ select_row
    \/ AddTimeTimer
    \/ remove_time

SpecTimer == InitWith({FileOf(JsonDump(<<T0600>>))}) /\ [][NextTimer]_vars

\* the schedule timer over more than a day, started with a single feeding
\* time in schedule.json
NextClock ==
    \/ connect_clicked
    \/ on_connect
    \/ wakeup_in_message_box
    \/ task_destroyed
    \/ schedule_timer(LongSpan)
    \/ scheduled_feed

SpecClock == InitWith({FileOf(JsonDump(<<T0600>>))}) /\ [][NextClock]_vars

(***************************************************************************)
(* Properties of the schedule timer.                                       *)
(***************************************************************************)
ScheduledStart == Task("scheduled_feed", "start", <<>>)

\* the step is a schedule tick that creates a scheduled_feed task
Triggers == CopiesIn(ScheduledStart, tasks') = CopiesIn(ScheduledStart, tasks) + 1

\* C1: a schedule tick taken while connected triggers a scheduled feed iff
\* the current time as HH:MM is in the schedule and differs from the
\* last-feed marker; when it triggers the marker becomes that time,
\* otherwise the marker is unchanged and no task is created.
C1_TickFiresIffDue ==
    [][clock' # clock /\ StepperReady =>
        LET now == Strftime(clock')
        IN  /\ Triggers <=> (now \in Range(schedule) /\ now # last_feed_time)
            /\ Triggers => last_feed_time' = now
            /\ ~Triggers => last_feed_time' = last_feed_time /\ tasks' = tasks]_vars

\* a tick has just triggered a feed at a time that replaced another marker
C1_Witness ==
    /\ StepperReady
    /\ clock \in BagToSet(fired)
    /\ last_feed_time = Strftime(clock)
    /\ ScheduledStart \in Pending
    /\ \E t \in BagToSet(fired) : Strftime(t) # last_feed_time

\* C2: no two triggers fall in the same clock minute (and no clock reading
\* triggers twice), whatever add_time and remove_time do in between.
C2_NoDuplicateFiring ==
    /\ \A t \in BagToSet(fired) : CopiesIn(t, fired) = 1
    /\ \A t, u \in BagToSet(fired) : t # u => AbsMinute(t) # AbsMinute(u)

\* a feed was triggered on the minute and a second tick was taken 30 seconds
\* later, still in that minute and still connected
C2_Witness ==
    /\ StepperReady
    /\ clock % 60 = 30
    /\ clock - 30 \in BagToSet(fired)
    /\ Strftime(clock) \in Range(schedule)

\* C3 as claimed: every tick taken while connected in a minute that is in
\* the schedule finds a feed triggered in that very minute, by itself or by
\* an earlier tick.
C3_NoMissedFiring ==
    [][clock' # clock /\ StepperReady /\ Strftime(clock') \in Range(schedule) =>
        \E t \in BagToSet(fired') : AbsMinute(t) = AbsMinute(clock')]_vars

\* C4 as claimed: after a tick taken while connected at a time that is not
\* in the schedule, the marker equals no time that has fired before.
C4_MarkerResetOffSchedule ==
    [][clock' # clock /\ StepperReady /\ Strftime(clock') \notin Range(schedule) =>
        \A t \in BagToSet(fired') : last_feed_time' # Strftime(t)]_vars

(***************************************************************************)
(* Properties of the feed and camera coroutines.                           *)
(***************************************************************************)
Count(x, seq) == Cardinality({i \in 1..Len(seq) : seq[i] = x})

\* C5 as claimed: a feed that issued go_for has issued stop exactly once by
\* the time it ends, whether go_for returned or raised.
C5_StopOnAllPaths ==
    Count("go_for", last_feed.calls) > 0 => Count("stop", last_feed.calls) = 1

MotorCalls == {"go_for", "stop"}

\* feed coroutines between issuing go_for and the end of stop
InFlightFeeds == BagCardinality([t \in {u \in Pending : u.pc \in MotorCalls} |-> tasks[t]])

\* C6 as claimed: never two feed operations in flight at once.
C6_OneFeedInFlight == InFlightFeeds <= 1

\* C7: a motor command is in flight only when connected with the stepper
\* set, and a camera fetch only when connected with the camera set; so
\* while disconnected, connecting or after a failed connection no remote
\* call is issued.
C7_ConnectionGating ==
    \A t \in Pending :
        /\ t.pc \in MotorCalls => connected /\ stepper # None
        /\ t.pc = "get_image" => connected /\ camera # None

\* after a connection that failed once the stepper was obtained, a tick was
\* taken at a scheduled time and no motor command is in flight
C7_Witness ==
    /\ ~connected /\ stepper # None
    /\ clock > StartClock
    /\ Strftime(clock) \in Range(schedule)
    /\ \A t \in Pending : t.pc \notin MotorCalls

(***************************************************************************)
(* Properties of the schedule editor.                                      *)
(***************************************************************************)
\* C8: for a sorted duplicate-free schedule and a strict HH:MM text that is
\* not in it, add_time makes the schedule one longer, keeps every previous
\* entry, contains the text, and leaves the schedule sorted and
\* duplicate-free.
C8_AddInsertsSorted ==
    [][\A d \in DialogResults :
        (/\ add_time(d)
         /\ d.ok /\ StrictHHMM(d.time) /\ d.time \notin Range(schedule)
         /\ IsSorted(schedule) /\ NoDuplicates(schedule))
        => /\ Len(schedule') = Len(schedule) + 1
           /\ d.time \in Range(schedule')
           /\ Range(schedule) \subseteq Range(schedule')
           /\ IsSorted(schedule') /\ NoDuplicates(schedule')]_vars

\* "06:01" has been added to the default schedule
C8_Witness == schedule = <<T0600, T0601, T1200, T(1, 6, 0, 2)>>

\* C9 as claimed: add_time changes nothing for a duplicate and for every
\* text that is not strict HH:MM.
C9_AddRejectsMalformed ==
    [][\A d \in DialogResults :
        add_time(d) /\ (d.time \in Range(schedule) \/ ~StrictHHMM(d.time))
        => UNCHANGED <<schedule, list_items, file>>]_vars

\* C10 as claimed: the schedule is always duplicate-free and sorted.
C10_ScheduleSortedUnique == NoDuplicates(schedule) /\ IsSorted(schedule)

\* C11: remove_time with a selected row i takes exactly the entry at
\* position i out of the schedule, which gets one shorter and keeps every
\* other entry in place and in order; with no row selected the schedule and
\* the file are unchanged.
C11_RemoveTakesSelected ==
    [][remove_time =>
        IF current_row >= 0
        THEN /\ Len(schedule') = Len(schedule) - 1
             /\ \A j \in 1..Len(schedule') :
                    schedule'[j] = IF j <= current_row THEN schedule[j] ELSE schedule[j + 1]
        ELSE UNCHANGED <<schedule, file>>]_vars

\* the middle entry of the default schedule has been removed
C11_Witness == schedule = <<T0600, T(1, 6, 0, 2)>>

\* C12: whenever add_time or remove_time has changed the schedule and its
\* save succeeded, load_schedule on the file returns the schedule in
\* memory, element for element.
C12_SaveLoadRoundTrip ==
    [][(AddTime \/ remove_time) /\ schedule' # schedule =>
           \A r \in save_schedule(file, schedule') :
               ~r.raised /\ file' = r.file => load_schedule(file').list = schedule']_vars

\* the file holds what was saved after "06:01" was added to the default
C12_Witness ==
    /\ schedule = <<T0600, T0601, T1200, T(1, 6, 0, 2)>>
    /\ file.exists /\ file.text = JsonDump(schedule)

\* the texts of the built-in default
DefaultTexts == <<T(0, 6, 0, 0), T(1, 2, 0, 0), T(1, 6, 0, 2)>>

\* files that are absent, empty, cut short, corrupt, or hold a JSON value
\* that is no list
FallbackFiles ==
    {NoFile}
    \cup {FileOf(SubSeq(JsonDump(<<T0600, T0601>>), 1, k)) :
              k \in 0..(Len(JsonDump(<<T0600, T0601>>)) - 1)}
    \cup {FileOf(JsonDump(<<T0600>>) \o t) : t \in {<<RBracket>>, <<Zero>>, JsonDump(<<>>)}}
    \cup {FileOf(t) :
              t \in {<<Space, Newline>>,
                     <<LBrace, RBrace>>,
                     <<LBrace>> \o <<Quote, LowerA, Quote, Colon>> \o JsonDump(<<T0600>>) \o <<RBrace>>,
                     <<Quote>> \o T0600 \o <<Quote>>,
                     <<Zero + 6>>, <<Minus, Zero + 6, Dot, Zero>>,
                     LitNull, LitTrue, LitFalse, LitNaN,
                     <<LBracket, Quote>>,
                     <<LBracket>> \o T0600 \o <<RBracket>>,
                     <<LBracket, Quote>> \o T0600 \o <<Quote, Comma, RBracket>>,
                     <<LBracket, Quote, Backslash, LowerY, Quote, RBracket>>,
                     <<LBracket, Quote, Tab, Quote, RBracket>>,
                     <<LBracket, Zero, Zero + 6, RBracket>>,
                     <<LBracket, LowerN, LowerU, LowerL, RBracket>>}}

\* C13: load_schedule returns the three default entries for every absent,
\* empty, unparsable and non-list file, in a list object of its own, and the
\* module-level default keeps these entries whatever add_time and
\* remove_time do afterwards.
C13_LoadFallsBackToDefault ==
    /\ \A f \in FallbackFiles :
           load_schedule(f).list = DefaultTexts /\ ~SharesDefault(load_schedule(f))
    /\ default_schedule = DefaultTexts

\* started without a file, the schedule fell back to the default and has
\* since been edited while the file could not be written
C13_Witness == ~file.exists /\ schedule # DefaultTexts

\* C18: the list widget holds the same entries in the same order as the
\* schedule in every state, and the selected row is a position of both.
C18_ListMirrorsSchedule ==
    /\ list_items = schedule
    /\ current_row \in -1..(Len(schedule) - 1)

\* an entry was added, the last row selected and removed
C18_Witness == list_items = <<T0600, T0601, T1200>> /\ current_row = 2

\* C14 as claimed: the Feed Now button is disabled whenever a manual feed is
\* between issuing go_for and the end of stop or of its error handling, and
\* once connected it is disabled only while a manual feed is under way, so
\* that no feed leaves it disabled for good.
C14_FeedButtonGuard ==
    /\ (\E t \in Pending : t.kind = "on_feed" /\ t.pc \in MotorCalls \cup BoxPcs) => ~feed_btn
    /\ connected /\ ~feed_btn => \E t \in Pending : t.kind = "on_feed"

\* C15 as claimed: the Refresh Camera button is disabled whenever a manual
\* or automatic camera fetch is waiting for get_image.
C15_RefreshButtonGuard ==
    (\E t \in Pending : t.kind \in CameraKinds /\ t.pc = "get_image") => ~refresh_cam_btn

\* C16 as claimed: a fetch whose get_image raised or whose bytes could not
\* be decoded leaves the displayed frame, the connection, the schedule and
\* the last-feed marker as they were, and the status line too when the
\* refresh was automatic.
C16_FailedFetchSkipsDraw ==
    [][\A kind \in CameraKinds, outcome \in {"undecodable", "raises"} :
          refresh_camera_resume(kind, outcome) =>
              /\ camera_label' = camera_label
              /\ UNCHANGED <<connVars, schedule, last_feed_time>>
              /\ kind = "camera_auto" => status' = status]_vars

\* C17 as claimed: when on_connect has ended in its exception handler, the
\* application is not connected, the status shows the failure, Feed Now and
\* Refresh Camera are disabled and Connect is enabled.
C17_FailedConnectRecoverable ==
    [][on_connect_dismissed =>
          /\ ~connected'
          /\ status' = "Status: Connection failed"
          /\ ~feed_btn' /\ ~refresh_cam_btn'
          /\ connect_btn']_vars

\* on_connect coroutines, started or waiting for at_address
ConnectAttempts == BagCardinality([t \in {u \in Pending : u.kind = "on_connect"} |-> tasks[t]])

\* C20 as claimed: at most one connection attempt is in flight, connected
\* never goes back to false, and once connected no attempt is pending and
\* the Connect button is disabled.
C20_ConnectOnce ==
    /\ ConnectAttempts <= 1
    /\ connected => ConnectAttempts = 0 /\ ~connect_btn

\* the step ends a scheduled feed in its exception handler
ScheduledFeedFails ==
    \/ feed_go_for("scheduled_feed", FALSE)
    \/ feed_stop("scheduled_feed", FALSE)

\* C19: a scheduled_feed coroutine is created only by a tick, which sets the
\* last-feed marker to the time of that tick in the same step, before any
\* motor command; a scheduled feed that fails ends without starting another
\* one and leaves the marker; and a tick at the time the marker holds
\* creates no task.
C19_NoRetryAfterFailure ==
    [][/\ Triggers => clock' # clock /\ last_feed_time' = Strftime(clock')
       /\ ScheduledFeedFails =>
              /\ BagCardinality(tasks') = BagCardinality(tasks) - 1
              /\ CopiesIn(ScheduledStart, tasks') = CopiesIn(ScheduledStart, tasks)
              /\ last_feed_time' = last_feed_time
       /\ clock' # clock /\ Strftime(clock') = last_feed_time => tasks' = tasks]_vars

\* the feed triggered at 06:00:00 has failed, the clock stands at 06:00:30
\* and no scheduled feed is pending
C19_Witness ==
    /\ last_feed.kind = "scheduled_feed"
    /\ status = "Status: Scheduled feed failed!"
    /\ clock = 6 * 3600 + 30
    /\ BagIn(6 * 3600, fired)
    /\ \A t \in Pending : t.kind # "scheduled_feed"

====
